---- MODULE Spec2Model ----
(***************************************************************************)
(* The OIDC authentication provider of the MongoDB Node.js driver:         *)
(* MongoDBOIDC (auth / prepare), the workflow registry, CallbackWorkflow   *)
(* (execute / reauthenticate / speculativeAuth) and TokenCache.            *)
(*                                                                         *)
(* A frame (call[c]) is one MongoDBOIDC call made on connection c: its     *)
(* arguments, its locals and the await it is suspended at.  The token      *)
(* cache is the one object shared by the calls of a provider.              *)
(***************************************************************************)
EXTENDS Integers, Sequences, FiniteSets, TLC

\* ------------------------------------------------------------------ bounds
\* Distinct access tokens a callback may hand out: 1..NumTokens.
NumTokens == 2
\* Distinct conversation ids the server may answer with: 1..NumConversations.
NumConversations == 2

\* ------------------------------------------------------- program constants
OIDC_VERSION == 1
HUMAN_TIMEOUT_MS == 300000
RESULT_PROPERTIES == {"accessToken", "expiresInSeconds", "refreshToken"}
MISSING_CREDENTIALS_ERROR == "AuthContext must provide credentials."
CALLBACK_RESULT_ERROR == "User provided OIDC callbacks must return a valid object with an accessToken."
NO_CALLBACK == "No OIDC_CALLBACK or OIDC_HUMAN_CALLBACK provided for callback workflow."

\* --------------------------------------------------------------- JS values
\* undefined (an absent argument, local or field).
Undefined == [undefined |-> TRUE]

\* A thrown error: its class, its message, and the value the message embeds.
MongoError(name, message, arg) == [name |-> name, message |-> message, arg |-> arg]

\* The two ways a synchronous call ends.
Return(v) == [threw |-> FALSE, value |-> v]
Throw(e) == [threw |-> TRUE, error |-> e]

\* An object with own properties props, a set of <<name, value>> pairs.
Obj(props) == [type |-> "object", props |-> props]
getOwnPropertyNames(o) == {pr[1] : pr \in o.props}
Prop(o, name) == (CHOOSE pr \in o.props : pr[1] = name)[2]

\* ------------------------------------------------------------------ inputs
Connections == {"c1", "c2"}
AccessTokens == 1..NumTokens
ConversationIds == 1..NumConversations

IdPInfos ==
    { [issuer |-> "https://idp.example", clientId |-> "abc"],
      [issuer |-> "https://idp2.example", clientId |-> "xyz"] }

\* BSON: a document is serialized as the sequence of its elements.
serialize(idp) == << <<"issuer", idp.issuer>>, <<"clientId", idp.clientId>> >>
Element(buffer, key) == buffer[CHOOSE i \in DOMAIN buffer : buffer[i][1] = key][2]
deserialize(buffer) ==
    [issuer |-> Element(buffer, "issuer"), clientId |-> Element(buffer, "clientId")]

\* What the server answers to the start command (or sent with the handshake):
\* a conversation id and a binary payload; a reply may lack its payload.
Payloads == {[buffer |-> serialize(idp)] : idp \in IdPInfos}
StartDocuments ==
    [conversationId : ConversationIds, payload : Payloads \cup {Undefined}]

\* The handshake response an auth context carries: none, one without a
\* speculative authentication reply, or one with it.
Responses ==
    {Undefined, [helloOk |-> TRUE]}
        \cup {[helloOk |-> TRUE, speculativeAuthenticate |-> d] : d \in StartDocuments}

\* Mechanism properties: ENVIRONMENT ("" when unset) and whether each of the
\* two callback functions is configured.
MechanismProperties ==
    [ENVIRONMENT : {"", "callback"}, OIDC_CALLBACK : BOOLEAN, OIDC_HUMAN_CALLBACK : BOOLEAN]
        \cup [ENVIRONMENT : {"aws", "azure", "gcp", "okta"},
              OIDC_CALLBACK : {FALSE}, OIDC_HUMAN_CALLBACK : {FALSE}]
Credentials == [source : {"$external", "admin"}, mechanismProperties : MechanismProperties]

AuthContexts ==
    [credentials : Credentials \cup {Undefined},
     reauthenticating : BOOLEAN,
     response : Responses]

\* What a user callback may resolve with.
ValidResults ==
    {Obj({<<"accessToken", t>>}) : t \in AccessTokens}
        \cup {Obj({<<"accessToken", 1>>, <<"expiresInSeconds", 1>>, <<"refreshToken", 1>>})}
InvalidResults ==
    { [type |-> "null", props |-> {}],
      [type |-> "string", props |-> {}],
      Obj({<<"refreshToken", 1>>}),
      Obj({<<"accessToken", 1>>, <<"extra", 1>>}) }
CallbackResults == ValidResults \cup InvalidResults

\* Errors of the collaborators: a failed command, a rejected callback.
CommandErrors ==
    { MongoError("MongoServerError", "Authentication failed.", ""),
      MongoError("MongoNetworkError", "connection closed", "") }
CallbackErrors == {MongoError("Error", "callback rejected", "")}

\* What the server answers to the finish command.
FinishDocuments == [ok : {1}, done : {TRUE}, conversationId : ConversationIds]

\* -------------------------------------------------------------- TokenCache
\* A TokenCache object is its one field; the provider may have no cache.
NewTokenCache == [tokenResult |-> Undefined]

hasToken(cache) == cache.tokenResult # Undefined

\* Mutant: get() that answers whatever the field holds.
get_neverFails(cache) == Return(cache.tokenResult)

get(cache) ==
    IF cache.tokenResult = Undefined
    THEN Throw(MongoError("MongoDriverError", "no token", ""))
    ELSE Return(cache.tokenResult)

\* Mutant: put() that keeps the token the cache already holds.
put_keepsFirst(cache, result) ==
    IF cache.tokenResult # Undefined THEN cache ELSE [cache EXCEPT !.tokenResult = result]

put(cache, result) == [cache EXCEPT !.tokenResult = result]

\* Mutant: remove() that leaves the token in place.
remove_keepsToken(cache) == cache

remove(cache) == [cache EXCEPT !.tokenResult = Undefined]

\* Mutant: a cache check that never sees the token.
OptHasToken_never(cache) == FALSE

\* cache?.m(): nothing happens when the provider holds no cache.
OptHasToken(cache) == cache # Undefined /\ hasToken(cache)
OptPut(cache, result) == IF cache = Undefined THEN cache ELSE put(cache, result)
OptRemove(cache) == IF cache = Undefined THEN cache ELSE remove(cache)

\* -------------------------------------------------------------- dispatcher
OIDC_WORKFLOWS ==
    [callback |-> "CallbackWorkflow",
     aws |-> "AwsMachineWorkflow",
     azure |-> "AzureMachineWorkflow",
     gcp |-> "GCPMachineWorkflow"]

\* Mutant: missing credentials replaced by an empty credentials object.
getCredentials_defaults(authContext) ==
    IF authContext.credentials = Undefined
    THEN Return([source |-> "$external",
                 mechanismProperties |-> [ENVIRONMENT |-> "", OIDC_CALLBACK |-> FALSE,
                                          OIDC_HUMAN_CALLBACK |-> FALSE]])
    ELSE Return(authContext.credentials)

getCredentials(authContext) ==
    IF authContext.credentials = Undefined
    THEN Throw(MongoError("MongoMissingCredentialsError", MISSING_CREDENTIALS_ERROR, ""))
    ELSE Return(authContext.credentials)

\* Mutant: a lookup without the `|| 'callback'` default.
getWorkflow_noDefault(credentials) ==
    LET providerName == credentials.mechanismProperties.ENVIRONMENT
    IN  IF providerName \in DOMAIN OIDC_WORKFLOWS
        THEN Return(OIDC_WORKFLOWS[providerName])
        ELSE Throw(MongoError("MongoInvalidArgumentError",
                              "Could not load workflow for provider ", providerName))

getWorkflow(credentials) ==
    LET providerName == credentials.mechanismProperties.ENVIRONMENT
        key == IF providerName = "" THEN "callback" ELSE providerName
    IN  IF key \in DOMAIN OIDC_WORKFLOWS
        THEN Return(OIDC_WORKFLOWS[key])
        ELSE Throw(MongoError("MongoInvalidArgumentError",
                              "Could not load workflow for provider ", providerName))

\* -------------------------------------------------------- CallbackWorkflow
\* Mutant: callback selection that never fails and falls back on the machine
\* callback slot.
getCallback_neverThrows(mechanismProperties) ==
    IF mechanismProperties.OIDC_HUMAN_CALLBACK /\ ~mechanismProperties.OIDC_CALLBACK
    THEN Return([callback |-> "OIDC_HUMAN_CALLBACK", isHumanWorkflow |-> TRUE])
    ELSE Return([callback |-> "OIDC_CALLBACK", isHumanWorkflow |-> FALSE])

getCallback(mechanismProperties) ==
    IF ~mechanismProperties.OIDC_CALLBACK \/ ~mechanismProperties.OIDC_HUMAN_CALLBACK
    THEN Throw(MongoError("MongoMissingCredentialsError", NO_CALLBACK, ""))
    ELSE IF mechanismProperties.OIDC_CALLBACK
         THEN Return([callback |-> "OIDC_CALLBACK", isHumanWorkflow |-> FALSE])
         ELSE Return([callback |-> "OIDC_HUMAN_CALLBACK", isHumanWorkflow |-> TRUE])

\* Mutant: validation that forgets the check for unrecognized fields.
isCallbackResultInvalid_noExtraCheck(tokenResult) ==
    IF tokenResult.type = "null" \/ tokenResult.type # "object" THEN TRUE
    ELSE "accessToken" \notin getOwnPropertyNames(tokenResult)

\* Mutant: validation that forgets the check for the accessToken field.
isCallbackResultInvalid_noAccessTokenCheck(tokenResult) ==
    IF tokenResult.type = "null" \/ tokenResult.type # "object" THEN TRUE
    ELSE ~(\A prop \in getOwnPropertyNames(tokenResult) : prop \in RESULT_PROPERTIES)

isCallbackResultInvalid(tokenResult) ==
    IF tokenResult.type = "null" \/ tokenResult.type # "object" THEN TRUE
    ELSE IF "accessToken" \notin getOwnPropertyNames(tokenResult) THEN TRUE
    ELSE ~(\A prop \in getOwnPropertyNames(tokenResult) : prop \in RESULT_PROPERTIES)

\* The two conversation messages.
startCommandDocument(credentials) ==
    [saslStart |-> 1, mechanism |-> "MONGODB-OIDC"]

finishCommandDocument(accessToken, conversationId) ==
    [saslContinue |-> 1, conversationId |-> conversationId, jwt |-> accessToken]

\* AbortSignal.timeout(ms): a signal that aborts once ms have passed.
AbortSignalTimeout(ms) == [delay |-> ms, aborted |-> FALSE]

\* The parameters fetchAccessToken hands to the callback.
CallbackParams(idpInfo, callbackInfo) ==
    [timeoutContext |-> AbortSignalTimeout(IF callbackInfo.isHumanWorkflow
                                           THEN HUMAN_TIMEOUT_MS ELSE HUMAN_TIMEOUT_MS),
     version |-> OIDC_VERSION,
     idpInfo |-> idpInfo]

\* response?.speculativeAuthenticate
speculativeAuthenticate(response) ==
    IF response # Undefined /\ "speculativeAuthenticate" \in DOMAIN response
    THEN response.speculativeAuthenticate
    ELSE Undefined

\* ------------------------------------------------------------------- state
\* cache: the provider's TokenCache (Undefined when it was built without one).
\* call:  per connection, the frame of the MongoDBOIDC call made on it.
VARIABLES cache, call
vars == <<cache, call>>

\* A frame at the entry of a call.  pc names the await the call is suspended
\* at.  trace, startReply, finishReply, thrown and entryCache are history: what
\* the call did, what the server answered, the error a collaborator raised,
\* and the cache the call found.
NewFrame(op, authContext, entryCache) ==
    [pc |-> "idle", op |-> op, authContext |-> authContext,
     workflow |-> "", method |-> "",
     response |-> Undefined, callbackInfo |-> Undefined,
     startDocument |-> Undefined, params |-> Undefined,
     startReply |-> Undefined, finishReply |-> Undefined,
     callbackResult |-> Undefined, tokenResult |-> Undefined,
     commands |-> <<>>, trace |-> <<>>, thrown |-> Undefined,
     result |-> Undefined, entryCache |-> entryCache]

Log(f, event) == [f EXCEPT !.trace = Append(@, event)]
Fail(f, error) == [f EXCEPT !.pc = "done", !.result = Throw(error)]
Succeed(f, value) == [f EXCEPT !.pc = "done", !.result = Return(value)]

\* Mutant: the rejection is caught and the call returns nothing.
rejected_swallowed(f, error, event) ==
    Succeed(Log([f EXCEPT !.thrown = error], event), Undefined)

\* An awaited collaborator (command or callback) rejects: nothing in execute,
\* reauthenticate or auth catches, so the call fails with that error.
rejected(f, error, event) == Fail(Log([f EXCEPT !.thrown = error], event), error)

\* startAuthentication after the start command was answered.
startAuthenticationReturn(f, document) ==
    Log([f EXCEPT !.startReply = document, !.startDocument = document,
                  !.pc = "started"], "start_ok")

\* finishAuthentication after the finish command was answered; execute (and
\* with it the call) returns the answer.
finishAuthenticationReturn(f, document) ==
    Succeed(Log([f EXCEPT !.finishReply = document], "finish_ok"), document)

\* ----------------------------------------- CallbackWorkflow, step by step
\* Mutant: the speculative reply is ignored, the start command always sent.
startAuthentication_alwaysSends(f, credentials, response) ==
    Log([f EXCEPT !.commands = Append(@, startCommandDocument(credentials)),
                  !.pc = "awaitStart"], "start_cmd")

\* Mutant: the start command is sent but not awaited; execute goes on with
\* the pending promise, which has neither conversationId nor payload.
startAuthentication_notAwaited(f, credentials, response) ==
    IF speculativeAuthenticate(response) # Undefined
    THEN Log([f EXCEPT !.startDocument = speculativeAuthenticate(response),
                       !.pc = "started"], "start_reuse")
    ELSE Log([f EXCEPT !.commands = Append(@, startCommandDocument(credentials)),
                       !.startDocument = [conversationId |-> Undefined,
                                          payload |-> Undefined],
                       !.pc = "started"], "start_cmd")

\* startAuthentication up to its await: reuse the speculative reply, or send
\* the start command.
startAuthentication(f, credentials, response) ==
    IF speculativeAuthenticate(response) # Undefined
    THEN Log([f EXCEPT !.startDocument = speculativeAuthenticate(response),
                       !.pc = "started"], "start_reuse")
    ELSE Log([f EXCEPT !.commands = Append(@, startCommandDocument(credentials)),
                       !.pc = "awaitStart"], "start_cmd")

\* execute up to its first await.
execute(f, credentials, response) ==
    LET callbackInfo == getCallback(credentials.mechanismProperties)
    IN  IF callbackInfo.threw
        THEN Fail([f EXCEPT !.response = response], callbackInfo.error)
        ELSE startAuthentication(
                 [f EXCEPT !.response = response, !.callbackInfo = callbackInfo.value],
                 credentials, response)

\* Mutant: reauthenticate that hands the handshake response on to execute.
reauthenticate_withResponse(f, credentials, c) ==
    [frame |-> execute(IF c = Undefined THEN f ELSE Log(f, "remove"),
                       credentials, f.authContext.response),
     cache |-> OptRemove(c)]

\* reauthenticate up to its first await: the frame and the cache it leaves.
reauthenticate(f, credentials, c) ==
    [frame |-> execute(IF c = Undefined THEN f ELSE Log(f, "remove"),
                       credentials, Undefined),
     cache |-> OptRemove(c)]

\* Mutant: the finish command is built without the conversation id.
finishAuthentication_noConversation(f, tokenResult, conversationId) ==
    Log([f EXCEPT !.commands =
                      Append(@, finishCommandDocument(Prop(tokenResult, "accessToken"), 0)),
                  !.pc = "awaitFinish"], "finish_cmd")

\* finishAuthentication up to its await: send the finish command.
finishAuthentication(f, tokenResult, conversationId) ==
    Log([f EXCEPT !.commands =
                      Append(@, finishCommandDocument(Prop(tokenResult, "accessToken"),
                                                      conversationId)),
                  !.pc = "awaitFinish"], "finish_cmd")

\* fetchAccessToken up to its await: invoke the callback.
fetchAccessToken(f, idpInfo, callbackInfo) ==
    Log([f EXCEPT !.params = CallbackParams(idpInfo, callbackInfo),
                  !.pc = "awaitCallback"], "callback")

\* execute from the start document to its next await.
executeTokenStep(f, c) ==
    IF f.startDocument.payload = Undefined
    THEN Fail(f, MongoError("TypeError", "Cannot read properties of undefined", "buffer"))
    ELSE LET conversationId == f.startDocument.conversationId
             idpInfo == deserialize(f.startDocument.payload.buffer)
         IN  IF OptHasToken(c)
             THEN finishAuthentication(
                      Log([f EXCEPT !.tokenResult = get(c).value], "cache_get"),
                      get(c).value, conversationId)
             ELSE fetchAccessToken(f, idpInfo, f.callbackInfo)

\* Mutant: fetchAccessToken that returns the callback's result unvalidated.
fetchAccessTokenReturn_unvalidated(f, result) ==
    [f EXCEPT !.callbackResult = result, !.pc = "fetched"]

\* fetchAccessToken after the callback resolved: validate the result.
fetchAccessTokenReturn(f, result) ==
    IF isCallbackResultInvalid(result)
    THEN Fail([f EXCEPT !.callbackResult = result],
              MongoError("MongoMissingCredentialsError", CALLBACK_RESULT_ERROR, ""))
    ELSE [f EXCEPT !.callbackResult = result, !.pc = "fetched"]

\* execute after fetchAccessToken returned: store the token, send finish.
executeStoreStep(f, c) ==
    [frame |-> finishAuthentication(
                   IF c = Undefined
                   THEN [f EXCEPT !.tokenResult = f.callbackResult]
                   ELSE Log([f EXCEPT !.tokenResult = f.callbackResult], "put"),
                   f.callbackResult, f.startDocument.conversationId),
     cache |-> OptPut(c, f.callbackResult)]

\* object.name = value, and { ...a, ...b }.
SetField(object, name, value) ==
    [x \in DOMAIN object \cup {name} |-> IF x = name THEN value ELSE object[x]]
Spread(a, b) ==
    [x \in DOMAIN a \cup DOMAIN b |-> IF x \in DOMAIN b THEN b[x] ELSE a[x]]

\* Mutant: speculativeAuth that leaves the start document as it was built.
speculativeAuth_noDb(credentials) ==
    [speculativeAuthenticate |-> startCommandDocument(credentials)]

\* speculativeAuth of the callback workflow.
speculativeAuth(credentials) ==
    LET document == startCommandDocument(credentials)
    IN  [speculativeAuthenticate |-> SetField(document, "db", credentials.source)]

\* ------------------------------------------------------------- MongoDBOIDC
\* Mutant: auth that runs execute whatever the reauthenticating flag says.
auth_ignoresFlag(f, authContext, c) ==
    LET credentials == getCredentials(authContext)
        workflow == getWorkflow(credentials.value)
        g == [f EXCEPT !.workflow = workflow.value, !.method = "execute"]
    IN  IF credentials.threw THEN [frame |-> Fail(f, credentials.error), cache |-> c]
        ELSE IF workflow.threw THEN [frame |-> Fail(f, workflow.error), cache |-> c]
        ELSE IF workflow.value # "CallbackWorkflow"
             THEN [frame |-> [g EXCEPT !.pc = "machine"], cache |-> c]
        ELSE [frame |-> execute(g, credentials.value, authContext.response),
              cache |-> c]

\* auth up to its first await.
auth(f, authContext, c) ==
    LET credentials == getCredentials(authContext)
        workflow == getWorkflow(credentials.value)
        method == IF authContext.reauthenticating THEN "reauthenticate" ELSE "execute"
        g == [f EXCEPT !.workflow = workflow.value, !.method = method]
    IN  IF credentials.threw THEN [frame |-> Fail(f, credentials.error), cache |-> c]
        ELSE IF workflow.threw THEN [frame |-> Fail(f, workflow.error), cache |-> c]
        ELSE IF workflow.value # "CallbackWorkflow"
             THEN [frame |-> [g EXCEPT !.pc = "machine"], cache |-> c]
        ELSE IF authContext.reauthenticating
             THEN reauthenticate(g, credentials.value, c)
             ELSE [frame |-> execute(g, credentials.value, authContext.response),
                   cache |-> c]

\* prepare up to its first await.
prepare(f, handshakeDoc, authContext) ==
    LET credentials == getCredentials(authContext)
        workflow == getWorkflow(credentials.value)
        g == [f EXCEPT !.workflow = workflow.value, !.method = "speculativeAuth"]
    IN  IF credentials.threw THEN Fail(f, credentials.error)
        ELSE IF workflow.threw THEN Fail(f, workflow.error)
        ELSE IF workflow.value # "CallbackWorkflow" THEN [g EXCEPT !.pc = "machine"]
        ELSE Succeed(g, Spread(handshakeDoc, speculativeAuth(credentials.value)))

\* ----------------------------------------------------------------- actions
IdleFrame == NewFrame("none", Undefined, Undefined)
Idle(c) == call[c].pc = "idle"

Init ==
    /\ cache \in {Undefined, NewTokenCache}
    /\ call = [c \in Connections |-> IdleFrame]

\* The driver calls provider.auth(authContext) on connection c.
Auth(c, authContext) ==
    /\ Idle(c)
    /\ LET next == auth(NewFrame("auth", authContext, cache), authContext, cache)
       IN  /\ call' = [call EXCEPT ![c] = next.frame]
           /\ cache' = next.cache

\* The driver calls provider.prepare(handshakeDoc, authContext).
Prepare(c, authContext) ==
    /\ Idle(c)
    /\ call' = [call EXCEPT ![c] =
                   prepare(NewFrame("prepare", authContext, cache),
                           [hello |-> 1], authContext)]
    /\ UNCHANGED cache

\* The server answers the start command.
StartReply(c, document) ==
    /\ call[c].pc = "awaitStart"
    /\ call' = [call EXCEPT ![c] = startAuthenticationReturn(@, document)]
    /\ UNCHANGED cache

\* The start command fails.
StartFail(c, error) ==
    /\ call[c].pc = "awaitStart"
    /\ call' = [call EXCEPT ![c] = rejected(@, error, "start_err")]
    /\ UNCHANGED cache

\* execute resumes with the start document: cache hit or callback.
TokenStep(c) ==
    /\ call[c].pc = "started"
    /\ call' = [call EXCEPT ![c] = executeTokenStep(@, cache)]
    /\ UNCHANGED cache

\* The callback resolves.
CallbackResolve(c, result) ==
    /\ call[c].pc = "awaitCallback"
    /\ call' = [call EXCEPT ![c] = fetchAccessTokenReturn(Log(@, "callback_ok"), result)]
    /\ UNCHANGED cache

\* The callback rejects.
CallbackReject(c, error) ==
    /\ call[c].pc = "awaitCallback"
    /\ call' = [call EXCEPT ![c] = rejected(@, error, "callback_err")]
    /\ UNCHANGED cache

\* execute resumes with the fetched token: put, then the finish command.
StoreStep(c) ==
    /\ call[c].pc = "fetched"
    /\ LET next == executeStoreStep(call[c], cache)
       IN  /\ call' = [call EXCEPT ![c] = next.frame]
           /\ cache' = next.cache

\* The server answers the finish command; execute returns the answer.
FinishReply(c, document) ==
    /\ call[c].pc = "awaitFinish"
    /\ call' = [call EXCEPT ![c] = finishAuthenticationReturn(@, document)]
    /\ UNCHANGED cache

\* The finish command fails.
FinishFail(c, error) ==
    /\ call[c].pc = "awaitFinish"
    /\ call' = [call EXCEPT ![c] = rejected(@, error, "finish_err")]
    /\ UNCHANGED cache

\* The deadline of the signal handed to the callback passes: the signal
\* aborts.  fetchAccessToken gave the signal away and keeps awaiting the
\* callback; nothing of the call runs at this moment.
SignalTimeout(c) ==
    /\ call[c].params # Undefined
    /\ ~call[c].params.timeoutContext.aborted
    /\ call' = [call EXCEPT ![c].params.timeoutContext.aborted = TRUE]
    /\ UNCHANGED cache

\* A machine workflow's operation ends (its code is outside this model).
MachineReturn(c, ok) ==
    /\ call[c].pc = "machine"
    /\ call' = [call EXCEPT ![c] =
                   IF ok THEN Succeed(@, [ok |-> 1])
                   ELSE Fail(@, MongoError("MongoServerError", "Authentication failed.", ""))]
    /\ UNCHANGED cache

\* The caller has the outcome of the call; the connection is free again.
Settle(c) ==
    /\ call[c].pc = "done"
    /\ call' = [call EXCEPT ![c] = IdleFrame]
    /\ UNCHANGED cache

\* ---------------------------------------------------------- specifications
\* One connection authenticating again and again: its calls run one at a time.
Next ==
    \/ \E authContext \in AuthContexts : Auth("c1", authContext)
    \/ \E authContext \in AuthContexts : Prepare("c1", authContext)
    \/ \E document \in StartDocuments : StartReply("c1", document)
    \/ \E error \in CommandErrors : StartFail("c1", error)
    \/ TokenStep("c1")
    \/ \E result \in CallbackResults : CallbackResolve("c1", result)
    \/ \E error \in CallbackErrors : CallbackReject("c1", error)
    \/ SignalTimeout("c1")
    \/ StoreStep("c1")
    \/ \E document \in FinishDocuments : FinishReply("c1", document)
    \/ \E error \in CommandErrors : FinishFail("c1", error)
    \/ \E ok \in BOOLEAN : MachineReturn("c1", ok)
    \/ Settle("c1")

Spec == Init /\ [][Next]_vars

\* A pool: the connections authenticate concurrently through one provider,
\* their calls interleaving at every await.  The inputs are those of the
\* callback workflow with both callbacks configured.
PoolCredentials ==
    [source |-> "$external",
     mechanismProperties |-> [ENVIRONMENT |-> "", OIDC_CALLBACK |-> TRUE,
                              OIDC_HUMAN_CALLBACK |-> TRUE]]
PoolStartDocuments ==
    {[conversationId |-> 1,
      payload |-> [buffer |-> serialize([issuer |-> "https://idp.example",
                                         clientId |-> "abc"])]]}
PoolAuthContexts ==
    [credentials : {PoolCredentials},
     reauthenticating : BOOLEAN,
     response : {Undefined}
                    \cup {[helloOk |-> TRUE, speculativeAuthenticate |-> d] :
                             d \in PoolStartDocuments}]
PoolCallbackResults ==
    {Obj({<<"accessToken", t>>}) : t \in AccessTokens} \cup {Obj({<<"refreshToken", 1>>})}
PoolCommandErrors == {MongoError("MongoServerError", "Authentication failed.", "")}
PoolFinishDocuments == {[ok |-> 1, done |-> TRUE, conversationId |-> 1]}

PoolNext ==
    \E c \in Connections :
        \/ \E authContext \in PoolAuthContexts : Auth(c, authContext)
        \/ \E document \in PoolStartDocuments : StartReply(c, document)
        \/ \E error \in PoolCommandErrors : StartFail(c, error)
        \/ TokenStep(c)
        \/ \E result \in PoolCallbackResults : CallbackResolve(c, result)
        \/ \E error \in CallbackErrors : CallbackReject(c, error)
        \/ SignalTimeout(c)
        \/ StoreStep(c)
        \/ \E document \in PoolFinishDocuments : FinishReply(c, document)
        \/ \E error \in PoolCommandErrors : FinishFail(c, error)
        \/ Settle(c)

SpecPool == Init /\ [][PoolNext]_vars

\* ------------------------------------------------- components on their own
\* The specifications below exercise one component directly.  A direct call
\* is a frame of its own kind: the operation, its input, and its outcome.
DirectFrame(op, input) ==
    [pc |-> "idle", op |-> op, input |-> input, result |-> Undefined]

\* Values a callback can resolve with: null, undefined, primitives, a
\* function, and objects with any set of own properties out of five names.
PropertyNames == {"accessToken", "expiresInSeconds", "refreshToken", "extra", "idToken"}
JSValues ==
    {[type |-> t, props |-> {}] :
         t \in {"null", "undefined", "string", "number", "boolean", "function"}}
        \cup {Obj({<<n, 1>> : n \in names}) : names \in SUBSET PropertyNames}

\* fetchAccessToken's check of a result, applied to the frame's input.
Validate(c) ==
    /\ call[c].op = "isCallbackResultInvalid"
    /\ call[c].pc = "idle"
    /\ call' = [call EXCEPT ![c].pc = "done",
                            ![c].result = Return(isCallbackResultInvalid(call[c].input))]
    /\ UNCHANGED cache

InitValidate ==
    /\ cache = Undefined
    /\ call \in [Connections -> {DirectFrame("isCallbackResultInvalid", v) : v \in JSValues}]

NextValidate == \E c \in Connections : Validate(c)

SpecValidate == InitValidate /\ [][NextValidate]_vars

\* A TokenCache used directly: one caller makes up to MaxCalls method calls on
\* a cache that starts as the constructor leaves it.  The frame keeps the log
\* of the calls: method, argument, what it answered, the cache before and
\* after.
MaxCalls == 4

CacheFrame(log) == [pc |-> "idle", op |-> "TokenCache", log |-> log]

CacheCall(c, method, input, result, after) ==
    /\ call[c].op = "TokenCache"
    /\ Len(call[c].log) < MaxCalls
    /\ call' = [call EXCEPT ![c].log =
                   Append(@, [method |-> method, input |-> input, result |-> result,
                              before |-> cache, after |-> after])]
    /\ cache' = after

CacheHasToken(c) == CacheCall(c, "hasToken", Undefined, Return(hasToken(cache)), cache)
CacheGet(c) == CacheCall(c, "get", Undefined, get(cache), cache)
CachePut(c, result) == CacheCall(c, "put", result, Return(Undefined), put(cache, result))
CacheRemove(c) == CacheCall(c, "remove", Undefined, Return(Undefined), remove(cache))

InitCache ==
    /\ cache = NewTokenCache
    /\ call = [c \in Connections |-> CacheFrame(<<>>)]

NextCache ==
    \/ CacheHasToken("c1")
    \/ CacheGet("c1")
    \/ \E result \in ValidResults : CachePut("c1", result)
    \/ CacheRemove("c1")

SpecCache == InitCache /\ [][NextCache]_vars

\* ------------------------------------------------------ AwsMachineWorkflow
TOKEN_MISSING_ERROR == "AWS_WEB_IDENTITY_TOKEN_FILE must be set in the environment."

\* A file's contents are a string of up to MaxFileLen characters; a token
\* file may end in a newline.
MaxFileLen == 2
FileChars == {"t", "\n"}
FileContents == UNION {[1..n -> FileChars] : n \in 0..MaxFileLen}

\* process.env as getToken finds it: the variable absent, empty, or a path.
NoEnv == [name \in {} |-> ""]
AwsEnvs ==
    {NoEnv} \cup [AWS_WEB_IDENTITY_TOKEN_FILE : {"", "/var/run/secrets/token", "/tmp/token"}]
ReadFileErrors ==
    { MongoError("Error", "ENOENT: no such file or directory", ""),
      MongoError("Error", "EACCES: permission denied", "") }

\* A getToken call: the environment it runs in, the file reads it made, what
\* the file system answered, its outcome.
AwsFrame(env) ==
    [pc |-> "idle", op |-> "AwsMachineWorkflow.getToken", env |-> env,
     reads |-> <<>>, answers |-> <<>>, thrown |-> Undefined,
     result |-> Undefined]

\* getToken up to its await.
AwsGetToken(f) ==
    IF "AWS_WEB_IDENTITY_TOKEN_FILE" \notin DOMAIN f.env
           \/ f.env.AWS_WEB_IDENTITY_TOKEN_FILE = ""
    THEN Fail(f, MongoError("MongoAWSError", TOKEN_MISSING_ERROR, ""))
    ELSE [f EXCEPT !.reads = Append(@, [path |-> f.env.AWS_WEB_IDENTITY_TOKEN_FILE,
                                        encoding |-> "utf8"]),
                   !.pc = "awaitRead"]

\* A string without its trailing newline.
TrimEnd(s) ==
    IF s # <<>> /\ s[Len(s)] = "\n" THEN SubSeq(s, 1, Len(s) - 1) ELSE s

\* Mutant: getToken that trims the file's contents.
AwsGetTokenReturn_trimmed(f, token) ==
    Succeed([f EXCEPT !.answers = Append(@, token)], [access_token |-> TrimEnd(token)])

\* getToken after readFile resolved.
AwsGetTokenReturn(f, token) ==
    Succeed([f EXCEPT !.answers = Append(@, token)], [access_token |-> token])

\* getToken is called in some environment.
AwsCall(c, env) ==
    /\ call[c].op = "AwsMachineWorkflow.getToken"
    /\ call[c].pc = "idle"
    /\ call' = [call EXCEPT ![c] = AwsGetToken(AwsFrame(env))]
    /\ UNCHANGED cache

\* fs.promises.readFile resolves with the file's contents.
AwsReadResolve(c, contents) ==
    /\ call[c].pc = "awaitRead"
    /\ call' = [call EXCEPT ![c] = AwsGetTokenReturn(@, contents)]
    /\ UNCHANGED cache

\* fs.promises.readFile rejects.
AwsReadReject(c, error) ==
    /\ call[c].pc = "awaitRead"
    /\ call' = [call EXCEPT ![c] = Fail([@ EXCEPT !.thrown = error], error)]
    /\ UNCHANGED cache

InitAws ==
    /\ cache = Undefined
    /\ call = [c \in Connections |-> AwsFrame(NoEnv)]

NextAws ==
    \E c \in Connections :
        \/ \E env \in AwsEnvs : AwsCall(c, env)
        \/ \E contents \in FileContents : AwsReadResolve(c, contents)
        \/ \E error \in ReadFileErrors : AwsReadReject(c, error)

SpecAws == InitAws /\ [][NextAws]_vars

\* ------------------------------------------------------ GCPMachineWorkflow
GCP_BASE_URL == "http://metadata/computeMetadata/v1/instance/service-accounts/default/identity"
GCP_HEADERS == [name \in {"Metadata-Flavor"} |-> "Google"]
TOKEN_AUDIENCE_MISSING_ERROR ==
    "TOKEN_AUDIENCE must be set in the auth mechanism properties when ENVIRONMENT is gcp."

\* An audience is a string of up to MaxAudienceLen characters, some of which
\* have a meaning in a query string.
MaxAudienceLen == 2
AudienceChars == {"a", "&", "%"}
Audiences == UNION {[1..n -> AudienceChars] : n \in 0..MaxAudienceLen}

\* The credentials getToken may be given: none, without TOKEN_AUDIENCE, or
\* with one (possibly the empty string).
GcpCredentials ==
    {Undefined, [source |-> "$external", mechanismProperties |-> [ENVIRONMENT |-> "gcp"]]}
        \cup {[source |-> "$external",
               mechanismProperties |-> [ENVIRONMENT |-> "gcp", TOKEN_AUDIENCE |-> a]] :
                  a \in Audiences}
ResponseBodies == {"eyJhbGciOi.1", "eyJhbGciOi.2"}
RequestErrors ==
    { MongoError("MongoNetworkTimeoutError", "request timed out", ""),
      MongoError("Error", "ECONNREFUSED", "") }

\* new URL(base), url.searchParams.append(name, value) and url.toString().
\* The serialized URL is its base and its query string, a sequence of
\* characters in which a parameter name stands as one element.
NewURL(base) == [base |-> base, searchParams |-> <<>>]
searchParamsAppend(url, name, value) ==
    [url EXCEPT !.searchParams = Append(@, <<name, value>>)]

RECURSIVE PercentEncode(_)
PercentEncode(s) ==
    IF s = <<>> THEN <<>>
    ELSE (CASE Head(s) = "&" -> <<"%", "2", "6">>
            [] Head(s) = "%" -> <<"%", "2", "5">>
            [] OTHER -> <<Head(s)>>) \o PercentEncode(Tail(s))

RECURSIVE QueryString(_)
QueryString(params) ==
    IF params = <<>> THEN <<>>
    ELSE <<Head(params)[1], "=">> \o PercentEncode(Head(params)[2])
             \o (IF Len(params) > 1 THEN <<"&">> ELSE <<>>)
             \o QueryString(Tail(params))

\* Mutant: a URL put together without escaping the values.
RECURSIVE QueryString_raw(_)
QueryString_raw(params) ==
    IF params = <<>> THEN <<>>
    ELSE <<Head(params)[1], "=">> \o Head(params)[2]
             \o (IF Len(params) > 1 THEN <<"&">> ELSE <<>>)
             \o QueryString_raw(Tail(params))
urlToString_raw(url) == [base |-> url.base, query |-> QueryString_raw(url.searchParams)]

urlToString(url) == [base |-> url.base, query |-> QueryString(url.searchParams)]

\* A getToken call: its credentials, the HTTP requests it issued, what the
\* metadata server answered, its outcome.
GcpFrame(credentials) ==
    [pc |-> "idle", op |-> "GCPMachineWorkflow.getToken", credentials |-> credentials,
     requests |-> <<>>, answers |-> <<>>, thrown |-> Undefined, result |-> Undefined]

\* request(url, options) up to its await: one HTTP request, a GET unless the
\* options name another method.
request(f, url, options) ==
    [f EXCEPT !.requests = Append(@, [method |-> "GET", url |-> url,
                                      headers |-> options.headers,
                                      json |-> options.json]),
              !.pc = "awaitRequest"]

\* getGcpTokenData up to its await.
getGcpTokenData(f, tokenAudience) ==
    LET url == searchParamsAppend(NewURL(GCP_BASE_URL), "audience", tokenAudience)
    IN  request(f, urlToString(url), [json |-> FALSE, headers |-> GCP_HEADERS])

\* getToken up to its await.
GcpGetToken(f, credentials) ==
    IF \/ credentials = Undefined
       \/ "TOKEN_AUDIENCE" \notin DOMAIN credentials.mechanismProperties
       \/ credentials.mechanismProperties.TOKEN_AUDIENCE = <<>>
    THEN Fail(f, MongoError("MongoGCPError", TOKEN_AUDIENCE_MISSING_ERROR, ""))
    ELSE getGcpTokenData(f, credentials.mechanismProperties.TOKEN_AUDIENCE)

\* getGcpTokenData after the request resolved.
getGcpTokenDataReturn(f, data) ==
    Succeed([f EXCEPT !.answers = Append(@, data)], [access_token |-> data])

GcpCall(c, credentials) ==
    /\ call[c].op = "GCPMachineWorkflow.getToken"
    /\ call[c].pc = "idle"
    /\ call' = [call EXCEPT ![c] = GcpGetToken(GcpFrame(credentials), credentials)]
    /\ UNCHANGED cache

\* The metadata server answers.
GcpRequestResolve(c, data) ==
    /\ call[c].pc = "awaitRequest"
    /\ call' = [call EXCEPT ![c] = getGcpTokenDataReturn(@, data)]
    /\ UNCHANGED cache

\* The request fails.
GcpRequestReject(c, error) ==
    /\ call[c].pc = "awaitRequest"
    /\ call' = [call EXCEPT ![c] = Fail([@ EXCEPT !.thrown = error], error)]
    /\ UNCHANGED cache

InitGcp ==
    /\ cache = Undefined
    /\ call = [c \in Connections |-> GcpFrame(Undefined)]

NextGcp ==
    \E c \in Connections :
        \/ \E credentials \in GcpCredentials : GcpCall(c, credentials)
        \/ \E data \in ResponseBodies : GcpRequestResolve(c, data)
        \/ \E error \in RequestErrors : GcpRequestReject(c, error)

SpecGcp == InitGcp /\ [][NextGcp]_vars

\* ------------------------------------------------------------------ claims
\* The call in progress (or just finished) on the connection of Spec.
F == call["c1"]

Range(seq) == {seq[i] : i \in DOMAIN seq}
Count(seq, x) == Cardinality({i \in DOMAIN seq : seq[i] = x})
StartCommands(f) == {i \in DOMAIN f.commands : "saslStart" \in DOMAIN f.commands[i]}
FinishCommands(f) == {i \in DOMAIN f.commands : "saslContinue" \in DOMAIN f.commands[i]}

\* The frame is a CallbackWorkflow.execute call (made directly by auth, or by
\* reauthenticate).
InExecute(f) ==
    f.workflow = "CallbackWorkflow" /\ f.method \in {"execute", "reauthenticate"}

\* execute has taken its token-acquisition step: it read the cache or invoked
\* the callback.
Acquired(f) == "cache_get" \in Range(f.trace) \/ "callback" \in Range(f.trace)

\* The provider has a cache and the cache holds a token.
HoldsToken(c) == c # Undefined /\ c.tokenResult # Undefined

MissingCredentials(message) == MongoError("MongoMissingCredentialsError", message, "")

C2_CachedTokenUsed ==
    (F.workflow = "CallbackWorkflow" /\ F.method = "execute" /\ HoldsToken(F.entryCache)) =>
        LET T == F.entryCache.tokenResult
        IN  /\ "callback" \notin Range(F.trace)
            /\ F.callbackResult = Undefined
            /\ cache = F.entryCache
            /\ \A i \in FinishCommands(F) :
                   F.commands[i].jwt = Prop(T, "accessToken")
            /\ Acquired(F) =>
                   /\ F.tokenResult = T
                   /\ Cardinality(FinishCommands(F)) = 1
                   /\ F.trace[Len(F.trace)] \in {"finish_cmd", "finish_ok", "finish_err"}

\* C2 witness: such a call has sent the finish command with the cached token.
C2_Witness ==
    /\ F.method = "execute"
    /\ HoldsToken(F.entryCache)
    /\ F.pc = "awaitFinish"
    /\ F.commands[Len(F.commands)].jwt = Prop(F.entryCache.tokenResult, "accessToken")

\* C3 (as claimed): callback selection uses the machine callback when it is
\* configured, else the human callback when that is configured, and fails with
\* the no-callback error only when neither is configured.
C3_CallbackSelection ==
    (InExecute(F) /\ F.pc # "idle") =>
        LET mp == F.authContext.credentials.mechanismProperties
            failed == F.pc = "done" /\ F.result = Throw(MissingCredentials(NO_CALLBACK))
        IN  /\ mp.OIDC_CALLBACK =>
                F.callbackInfo = [callback |-> "OIDC_CALLBACK", isHumanWorkflow |-> FALSE]
            /\ (~mp.OIDC_CALLBACK /\ mp.OIDC_HUMAN_CALLBACK) =>
                F.callbackInfo = [callback |-> "OIDC_HUMAN_CALLBACK", isHumanWorkflow |-> TRUE]
            /\ failed <=> (~mp.OIDC_CALLBACK /\ ~mp.OIDC_HUMAN_CALLBACK)

\* C4: when the callback resolves with an invalid result, the call has failed
\* with the invalid-callback-result error, has sent no finish command, has
\* invoked the callback once only, and the result is not in the cache: a cache
\* without a token at the call's entry is still without one.
C4_InvalidResultRejected ==
    (InExecute(F) /\ F.callbackResult \in InvalidResults) =>
        /\ F.pc = "done"
        /\ F.result = Throw(MissingCredentials(CALLBACK_RESULT_ERROR))
        /\ FinishCommands(F) = {}
        /\ Count(F.trace, "callback") = 1
        /\ F.tokenResult = Undefined
        /\ cache # Undefined => cache.tokenResult # F.callbackResult
        /\ ~HoldsToken(F.entryCache) => ~HoldsToken(cache)

\* C4 witness: a call whose callback resolved with an object that carries an
\* unrecognized field, on a cache that held no token.
C4_Witness ==
    /\ InExecute(F)
    /\ F.callbackResult = Obj({<<"accessToken", 1>>, <<"extra", 1>>})
    /\ cache = NewTokenCache
    /\ F.pc = "done"

\* Events of a call's trace, by the step they belong to.
StartEvents == {"start_cmd", "start_reuse", "start_ok", "start_err"}
StartCompleted == {"start_reuse", "start_ok"}
AcquireEvents == {"cache_get", "callback", "callback_ok", "callback_err", "put"}
AcquireCompleted == {"cache_get", "callback_ok"}
FinishEvents == {"finish_cmd", "finish_ok", "finish_err"}

\* C5: in one execute call the start step has completed before token
\* acquisition begins, and token acquisition has completed before the finish
\* command is sent: no start event follows an acquisition event, nothing but
\* the finish command's outcome follows the finish command, and the call waits
\* for at most one of the three at a time.
C5_StepsOrdered ==
    InExecute(F) =>
        LET tr == F.trace
        IN  /\ \A i \in DOMAIN tr :
                   tr[i] \in AcquireEvents =>
                       /\ \E j \in 1..(i - 1) : tr[j] \in StartCompleted
                       /\ \A j \in (i + 1)..Len(tr) : tr[j] \notin StartEvents
            /\ \A i \in DOMAIN tr :
                   tr[i] = "finish_cmd" =>
                       /\ \E j \in 1..(i - 1) : tr[j] \in AcquireCompleted
                       /\ \A j \in (i + 1)..Len(tr) : tr[j] \in {"finish_ok", "finish_err"}
            /\ F.pc = "awaitStart" =>
                   \A i \in DOMAIN tr : tr[i] \notin AcquireEvents \cup FinishEvents
            /\ F.pc = "started" => tr # <<>> /\ tr[Len(tr)] \in StartCompleted
            /\ F.pc \in {"awaitCallback", "fetched"} =>
                   \A i \in DOMAIN tr : tr[i] \notin FinishEvents

\* C5 witness: a call that went through all three steps, callback included.
C5_Witness ==
    /\ InExecute(F)
    /\ F.trace = <<"start_cmd", "start_ok", "callback", "callback_ok", "put",
                   "finish_cmd", "finish_ok">>

\* C6: on the callback path of execute the callback gets version 1 and the
\* idpInfo that the start document's payload encodes; the finish command
\* carries the accessToken of the callback's result and the start document's
\* conversationId; and when the call has returned successfully the cache holds
\* the callback's result and the value returned is the server's finish reply.
C6_DataFlow ==
    (InExecute(F) /\ F.params # Undefined) =>
        /\ F.params.version = 1
        /\ F.params.idpInfo \in IdPInfos
        /\ serialize(F.params.idpInfo) = F.startDocument.payload.buffer
        /\ \A i \in FinishCommands(F) :
               /\ F.commands[i].jwt = Prop(F.callbackResult, "accessToken")
               /\ F.commands[i].conversationId = F.startDocument.conversationId
        /\ (F.pc = "done" /\ ~F.result.threw) =>
               /\ F.callbackResult \in ValidResults
               /\ cache # Undefined => cache.tokenResult = F.callbackResult
               /\ F.finishReply \in FinishDocuments
               /\ F.result.value = F.finishReply

\* C6 witness: a successful call on an empty cache, conversation 2, whose
\* callback returned access token 1.
C6_Witness ==
    /\ InExecute(F)
    /\ F.entryCache = NewTokenCache
    /\ F.pc = "done" /\ ~F.result.threw
    /\ F.startDocument.conversationId = 2
    /\ F.callbackResult = Obj({<<"accessToken", 1>>})
    /\ cache.tokenResult = Obj({<<"accessToken", 1>>})

\* C7: with credentials present, ENVIRONMENT unset or 'callback' resolves the
\* callback workflow, 'aws', 'azure' and 'gcp' the matching machine workflow,
\* and any other value fails the call with an invalid-argument error naming
\* that value, no workflow having been resolved.
C7_WorkflowResolution ==
    (F.op \in {"auth", "prepare"} /\ F.authContext.credentials # Undefined) =>
        LET env == F.authContext.credentials.mechanismProperties.ENVIRONMENT
        IN  CASE env \in {"", "callback"} -> F.workflow = "CallbackWorkflow"
              [] env = "aws" -> F.workflow = "AwsMachineWorkflow"
              [] env = "azure" -> F.workflow = "AzureMachineWorkflow"
              [] env = "gcp" -> F.workflow = "GCPMachineWorkflow"
              [] OTHER ->
                   /\ F.workflow = ""
                   /\ F.pc = "done"
                   /\ F.result.threw
                   /\ F.result.error.name = "MongoInvalidArgumentError"
                   /\ F.result.error.arg = env

\* C7 witness: a call whose credentials leave ENVIRONMENT unset is running the
\* callback workflow.
C7_Witness ==
    /\ F.op = "auth"
    /\ F.authContext.credentials # Undefined
    /\ F.authContext.credentials.mechanismProperties.ENVIRONMENT = ""
    /\ F.workflow = "CallbackWorkflow"
    /\ F.pc = "awaitStart"

\* C8: an auth or prepare call whose context has no credentials has failed
\* with the missing-credentials error, with no workflow resolved, no workflow
\* operation run, no command sent and the cache as the call found it.
C8_MissingCredentials ==
    (F.op \in {"auth", "prepare"} /\ F.authContext.credentials = Undefined) =>
        /\ F.pc = "done"
        /\ F.result = Throw(MissingCredentials(MISSING_CREDENTIALS_ERROR))
        /\ F.workflow = "" /\ F.method = ""
        /\ F.commands = <<>> /\ F.trace = <<>>
        /\ F.callbackInfo = Undefined
        /\ cache = F.entryCache

\* C8 witness: a reauthenticating auth call without credentials, on a cache
\* that holds a token.
C8_Witness ==
    /\ F.op = "auth"
    /\ F.authContext.credentials = Undefined
    /\ F.authContext.reauthenticating
    /\ HoldsToken(cache)

\* The handshake response passed to execute has a speculative reply.
HasSpeculative(f) ==
    f.response # Undefined /\ "speculativeAuthenticate" \in DOMAIN f.response

\* C9: an execute call that reaches its start step uses the speculative reply
\* of the handshake response as start document and sends no start command, or,
\* without one, sends exactly one start command and uses the server's reply;
\* the idpInfo given to the callback and the conversationId of the finish
\* command are those of that start document.
C9_StartStep ==
    (InExecute(F) /\ F.callbackInfo # Undefined) =>
        LET source == IF HasSpeculative(F)
                      THEN F.response.speculativeAuthenticate
                      ELSE F.startReply
        IN  /\ HasSpeculative(F) => StartCommands(F) = {} /\ F.startReply = Undefined
            /\ ~HasSpeculative(F) => StartCommands(F) = {1}
            /\ F.pc \notin {"awaitStart", "done"} => source # Undefined
            /\ F.startDocument = source
            /\ F.params # Undefined =>
                   F.params.idpInfo = deserialize(source.payload.buffer)
            /\ \A i \in FinishCommands(F) :
                   F.commands[i].conversationId = source.conversationId

\* C9 witness: a call given a speculative reply of conversation 2 has sent its
\* finish command without a start command.
C9_Witness ==
    /\ InExecute(F)
    /\ HasSpeculative(F)
    /\ F.response.speculativeAuthenticate.conversationId = 2
    /\ F.pc = "awaitFinish"
    /\ Len(F.commands) = 1

\* C10: one execute call sends at most one start command, invokes the
\* callback at most once and sends at most one finish command; when the start
\* command, the callback or the finish command fails, the call has failed with
\* that very error and the failure is the last thing the call did.
C10_NoRetryNoSwallow ==
    InExecute(F) =>
        /\ Cardinality(StartCommands(F)) <= 1
        /\ Cardinality(FinishCommands(F)) <= 1
        /\ Count(F.trace, "callback") <= 1
        /\ Len(F.commands) = Count(F.trace, "start_cmd") + Count(F.trace, "finish_cmd")
        /\ F.thrown # Undefined =>
               /\ F.pc = "done"
               /\ F.result = Throw(F.thrown)
               /\ F.trace[Len(F.trace)] \in {"start_err", "callback_err", "finish_err"}
               /\ F.trace[Len(F.trace)] = "start_err" =>
                      ~Acquired(F) /\ FinishCommands(F) = {}
               /\ F.trace[Len(F.trace)] = "callback_err" =>
                      "put" \notin Range(F.trace) /\ FinishCommands(F) = {}

\* C10 witness: a call whose finish command failed with a network error.
C10_Witness ==
    /\ InExecute(F)
    /\ F.thrown = MongoError("MongoNetworkError", "connection closed", "")
    /\ F.trace[Len(F.trace)] = "finish_err"

C12_FinishRejectionClearsCache ==
    (InExecute(F) /\ F.trace # <<>> /\ F.trace[Len(F.trace)] = "finish_err") =>
        ~HoldsToken(cache)

\* C13: the cache is last-write-wins.  Whenever a call stores the token it
\* fetched, the cache holds that call's token right after the step, whatever
\* another call on the same cache stored before; so once two racing calls have
\* both stored, the cache holds the token of the one that stored last.
C13_LastWriteWins ==
    [][\A c \in Connections :
           Count(call'[c].trace, "put") > Count(call[c].trace, "put") =>
               /\ cache' # Undefined
               /\ call'[c].tokenResult = call[c].callbackResult
               /\ cache'.tokenResult = call'[c].tokenResult]_vars

\* C13 witness: two execute calls that both found the cache empty have both
\* invoked the callback and both stored their token, the tokens differ, and
\* the cache holds the token of the second connection while the first one,
\* which stored the other token, is still waiting for its finish reply.
C13_Witness ==
    /\ \A c \in Connections :
           /\ call[c].method = "execute"
           /\ call[c].entryCache = NewTokenCache
           /\ "callback" \in Range(call[c].trace)
           /\ "put" \in Range(call[c].trace)
    /\ call["c1"].tokenResult # call["c2"].tokenResult
    /\ call["c1"].pc = "awaitFinish"
    /\ cache.tokenResult = call["c2"].tokenResult

\* C14: an execute call whose callback has not completed when the deadline of
\* its timeout signal expires fails (with a timeout error) at that moment: no
\* call is still waiting for its callback after the signal has aborted.
C14_DeadlineFailsCall ==
    (InExecute(F) /\ F.params # Undefined /\ F.params.timeoutContext.aborted) =>
        F.pc # "awaitCallback"

\* Neither callback function is configured in the call's credentials.
NoCallbackConfigured(f) ==
    /\ ~f.authContext.credentials.mechanismProperties.OIDC_CALLBACK
    /\ ~f.authContext.credentials.mechanismProperties.OIDC_HUMAN_CALLBACK

\* C15: an execute call of the callback workflow with no callback configured
\* has failed with the missing-callback error as soon as it was made: it sent
\* no command, invoked no callback, reused no reply, and the cache is the one
\* it was given (emptied by reauthenticate when the call came through it).
C15_NoCallbackNoIO ==
    (InExecute(F) /\ NoCallbackConfigured(F)) =>
        /\ F.pc = "done"
        /\ F.result = Throw(MissingCredentials(NO_CALLBACK))
        /\ F.commands = <<>>
        /\ Range(F.trace) \subseteq {"remove"}
        /\ F.params = Undefined /\ F.callbackResult = Undefined
        /\ F.startDocument = Undefined /\ F.tokenResult = Undefined
        /\ F.method = "execute" => cache = F.entryCache /\ F.trace = <<>>
        /\ F.method = "reauthenticate" =>
               cache = IF F.entryCache = Undefined THEN Undefined ELSE NewTokenCache

\* C15 witness: an execute call with no callback configured, made with a
\* speculative reply at hand on a cache that holds a token.
C15_Witness ==
    /\ InExecute(F) /\ F.method = "execute"
    /\ NoCallbackConfigured(F)
    /\ HasSpeculative(F)
    /\ HoldsToken(cache)
    /\ F.pc = "done"

\* The validation rule as the contract words it.
InvalidByContract(r) ==
    \/ r.type \in {"null", "undefined"}
    \/ r.type # "object"
    \/ "accessToken" \notin {p[1] : p \in r.props}
    \/ \E p \in r.props : p[1] \notin {"accessToken", "expiresInSeconds", "refreshToken"}

\* C16: isCallbackResultInvalid answers true exactly for a result that is
\* null or undefined, is not an object, has no accessToken field, or has an
\* own property other than accessToken, expiresInSeconds and refreshToken;
\* it answers false for every other result.
C16_ValidationPredicate ==
    \A c \in Connections :
        (call[c].op = "isCallbackResultInvalid" /\ call[c].pc = "done") =>
            call[c].result = Return(InvalidByContract(call[c].input))

\* C16 witness: a result with the three recognized fields was accepted, and a
\* result with accessToken and one unrecognized field was rejected.
C16_Witness ==
    /\ call["c1"].pc = "done"
    /\ call["c1"].input =
           Obj({<<"accessToken", 1>>, <<"expiresInSeconds", 1>>, <<"refreshToken", 1>>})
    /\ call["c1"].result = Return(FALSE)
    /\ call["c2"].pc = "done"
    /\ call["c2"].input = Obj({<<"accessToken", 1>>, <<"extra", 1>>})
    /\ call["c2"].result = Return(TRUE)

\* The calls that change a TokenCache.
IsMutating(entry) == entry.method \in {"put", "remove"}

\* C17: a TokenCache holds no token or one token.  At every call of a
\* sequence of calls, a token is present exactly when the last put or remove
\* before it was a put, and the token is the one of that put; hasToken()
\* answers whether a token is present; get() answers the token, or fails with
\* 'no token' when none is present; hasToken() and get() leave the cache as
\* it was (empty, when get() failed).
C17_TokenCache ==
    LET log == call["c1"].log
    IN  /\ cache = IF log = <<>> THEN NewTokenCache ELSE log[Len(log)].after
        /\ DOMAIN cache = {"tokenResult"}
        /\ cache.tokenResult \in ValidResults \cup {Undefined}
        /\ \A i \in DOMAIN log :
               LET muts == SelectSeq(SubSeq(log, 1, i - 1), IsMutating)
                   present == muts # <<>> /\ muts[Len(muts)].method = "put"
                   held == IF present THEN muts[Len(muts)].input ELSE Undefined
               IN  /\ log[i].before.tokenResult = held
                   /\ log[i].method = "hasToken" =>
                          /\ log[i].result = Return(present)
                          /\ log[i].after = log[i].before
                   /\ log[i].method = "get" =>
                          /\ log[i].after = log[i].before
                          /\ present => log[i].result = Return(held)
                          /\ ~present =>
                                 /\ log[i].result =
                                        Throw(MongoError("MongoDriverError", "no token", ""))
                                 /\ log[i].after = NewTokenCache
                   /\ log[i].method = "put" => log[i].after.tokenResult = log[i].input
                   /\ log[i].method = "remove" => log[i].after.tokenResult = Undefined

\* C17 witness: put(T1), put(T2), get() answering T2, and, after remove(), a
\* get() that failed.
C17_Witness ==
    LET log == call["c1"].log
    IN  /\ Len(log) = 4
        /\ log[1].method = "put" /\ log[2].method = "put"
        /\ log[1].input # log[2].input
        /\ log[3].method = "remove"
        /\ log[4].method = "get" /\ log[4].result.threw

\* C18: speculativeAuth of the callback workflow (reached through prepare)
\* has returned at once, without failing, a document whose
\* speculativeAuthenticate field is the start command document with db set to
\* credentials.source; it sent no command, invoked no callback, and the cache
\* is as the call found it.
C18_SpeculativeAuth ==
    (F.op = "prepare" /\ F.workflow = "CallbackWorkflow") =>
        /\ F.method = "speculativeAuth"
        /\ F.pc = "done"
        /\ ~F.result.threw
        /\ "speculativeAuthenticate" \in DOMAIN F.result.value
        /\ LET D == F.result.value.speculativeAuthenticate
           IN  /\ DOMAIN D = {"saslStart", "mechanism", "db"}
               /\ D.saslStart = 1 /\ D.mechanism = "MONGODB-OIDC"
               /\ D.db = F.authContext.credentials.source
        /\ F.commands = <<>> /\ F.trace = <<>>
        /\ F.params = Undefined /\ F.callbackInfo = Undefined
        /\ F.tokenResult = Undefined
        /\ cache = F.entryCache

\* C18 witness: prepare with credentials of source "admin" and no callback
\* configured, on a cache that holds a token, has returned its document.
C18_Witness ==
    /\ F.op = "prepare" /\ F.method = "speculativeAuth"
    /\ F.authContext.credentials.source = "admin"
    /\ NoCallbackConfigured(F)
    /\ HoldsToken(cache)
    /\ F.pc = "done"
    /\ F.result.value.hello = 1

\* C19: AwsMachineWorkflow.getToken with AWS_WEB_IDENTITY_TOKEN_FILE unset or
\* empty has failed with the AWS configuration error without reading any
\* file; with the variable set it has made exactly one read, of that path,
\* and it returns the contents the read gave as access_token, unchanged, or
\* fails with the error the read failed with.
C19_AwsGetToken ==
    \A c \in Connections :
        LET f == call[c]
            unset == \/ "AWS_WEB_IDENTITY_TOKEN_FILE" \notin DOMAIN f.env
                     \/ f.env.AWS_WEB_IDENTITY_TOKEN_FILE = ""
        IN  (f.op = "AwsMachineWorkflow.getToken" /\ f.pc # "idle") =>
                /\ unset =>
                       /\ f.pc = "done"
                       /\ f.result = Throw(MongoError("MongoAWSError", TOKEN_MISSING_ERROR, ""))
                       /\ f.reads = <<>>
                /\ ~unset =>
                       /\ Len(f.reads) = 1
                       /\ f.reads[1].path = f.env.AWS_WEB_IDENTITY_TOKEN_FILE
                       /\ f.pc = "done" =>
                              /\ f.thrown = Undefined =>
                                     /\ Len(f.answers) = 1
                                     /\ f.result = Return([access_token |-> f.answers[1]])
                              /\ f.thrown # Undefined =>
                                     /\ f.answers = <<>>
                                     /\ f.result = Throw(f.thrown)

\* C19 witness: one call returned a token file ending in a newline as it is,
\* another failed on an empty variable, with no read.
C19_Witness ==
    /\ call["c1"].pc = "done"
    /\ call["c1"].answers = << <<"t", "\n">> >>
    /\ call["c1"].result = Return([access_token |-> <<"t", "\n">>])
    /\ call["c2"].pc = "done"
    /\ "AWS_WEB_IDENTITY_TOKEN_FILE" \in DOMAIN call["c2"].env
    /\ call["c2"].result.threw
    /\ call["c2"].reads = <<>>

\* What a server reads out of a query string: the parameters are separated by
\* "&", name and value by "=", and %26, %25 stand for "&", "%".
RECURSIVE PercentDecode(_)
PercentDecode(s) ==
    IF s = <<>> THEN <<>>
    ELSE IF Len(s) >= 3 /\ s[1] = "%" /\ s[2] = "2" /\ s[3] \in {"5", "6"}
         THEN <<IF s[3] = "6" THEN "&" ELSE "%">> \o PercentDecode(SubSeq(s, 4, Len(s)))
         ELSE <<Head(s)>> \o PercentDecode(Tail(s))
FirstParamEnd(query) ==
    IF \E i \in DOMAIN query : query[i] = "&"
    THEN (CHOOSE i \in DOMAIN query :
              query[i] = "&" /\ \A j \in 1..(i - 1) : query[j] # "&") - 1
    ELSE Len(query)

\* C20: GCPMachineWorkflow.getToken without credentials, or with credentials
\* that have no (or an empty) TOKEN_AUDIENCE, has failed with the GCP
\* configuration error and issued no request; with a TOKEN_AUDIENCE it has
\* issued exactly one request, a GET of the metadata URL whose query is the
\* one parameter audience, equal to the configured value, and which carries
\* the header Metadata-Flavor: Google; it returns the response body as
\* access_token, or fails with the error of the request.
C20_GcpGetToken ==
    \A c \in Connections :
        LET f == call[c]
            lacking == \/ f.credentials = Undefined
                       \/ "TOKEN_AUDIENCE" \notin DOMAIN f.credentials.mechanismProperties
                       \/ f.credentials.mechanismProperties.TOKEN_AUDIENCE = <<>>
        IN  (f.op = "GCPMachineWorkflow.getToken" /\ f.pc # "idle") =>
                /\ lacking =>
                       /\ f.pc = "done"
                       /\ f.result = Throw(MongoError("MongoGCPError",
                                                      TOKEN_AUDIENCE_MISSING_ERROR, ""))
                       /\ f.requests = <<>>
                /\ ~lacking =>
                       /\ Len(f.requests) = 1
                       /\ f.requests[1].method = "GET"
                       /\ f.requests[1].url.base =
                              "http://metadata/computeMetadata/v1/instance/service-accounts/default/identity"
                       /\ LET query == f.requests[1].url.query
                          IN  /\ Len(query) >= 2
                              /\ query[1] = "audience" /\ query[2] = "="
                              /\ FirstParamEnd(query) = Len(query)
                              /\ PercentDecode(SubSeq(query, 3, FirstParamEnd(query))) =
                                     f.credentials.mechanismProperties.TOKEN_AUDIENCE
                       /\ "Metadata-Flavor" \in DOMAIN f.requests[1].headers
                       /\ f.requests[1].headers["Metadata-Flavor"] = "Google"
                       /\ f.pc = "done" =>
                              /\ f.thrown = Undefined =>
                                     /\ Len(f.answers) = 1
                                     /\ f.result = Return([access_token |-> f.answers[1]])
                              /\ f.thrown # Undefined =>
                                     /\ f.answers = <<>>
                                     /\ f.result = Throw(f.thrown)

\* C20 witness: a call with the audience "a&" got its token from the metadata
\* server, and a call whose credentials have no TOKEN_AUDIENCE failed without
\* a request.
C20_Witness ==
    /\ call["c1"].pc = "done"
    /\ call["c1"].credentials # Undefined
    /\ "TOKEN_AUDIENCE" \in DOMAIN call["c1"].credentials.mechanismProperties
    /\ call["c1"].credentials.mechanismProperties.TOKEN_AUDIENCE = <<"a", "&">>
    /\ call["c1"].result = Return([access_token |-> "eyJhbGciOi.2"])
    /\ call["c2"].pc = "done"
    /\ call["c2"].credentials # Undefined
    /\ "TOKEN_AUDIENCE" \notin DOMAIN call["c2"].credentials.mechanismProperties
    /\ call["c2"].requests = <<>>

\* C21: whatever other calls do on the shared cache, a reauthenticate call
\* that has sent its finish command has invoked the callback itself, has not
\* read the cache, and the token of its finish command is the one its own
\* callback invocation returned.
C21_ReauthenticateFetchesItself ==
    \A c \in Connections :
        (/\ call[c].workflow = "CallbackWorkflow"
         /\ call[c].method = "reauthenticate"
         /\ "finish_cmd" \in Range(call[c].trace)) =>
            /\ "callback_ok" \in Range(call[c].trace)
            /\ "cache_get" \notin Range(call[c].trace)
            /\ call[c].tokenResult = call[c].callbackResult

\* What the calls of a state have done to the cache, call by call: at most
\* one put, after a callback resolved and never after a cache read, of the
\* value the callback returned, which passed validation.
PutsOnMissOnly ==
    /\ HoldsToken(cache) => ~InvalidByContract(cache.tokenResult)
    /\ \A c \in Connections :
           /\ Count(call[c].trace, "put") <= 1
           /\ call[c].pc = "fetched" =>
                  /\ "callback_ok" \in Range(call[c].trace)
                  /\ ~InvalidByContract(call[c].callbackResult)
           /\ "put" \in Range(call[c].trace) =>
                  /\ "callback_ok" \in Range(call[c].trace)
                  /\ "cache_get" \notin Range(call[c].trace)
                  /\ call[c].tokenResult = call[c].callbackResult

\* C22: on a cache that starts empty, under every interleaving of execute and
\* reauthenticate calls, the cache changes only by a removal or by the put of
\* a call that stores the validated value its own callback invocation
\* returned; so a token present in the cache is always such a value, and each
\* call puts at most once, on the cache-miss path only.
C22_CacheHoldsFetchedTokens ==
    /\ []PutsOnMissOnly
    /\ [][cache' # cache =>
              \/ ~HoldsToken(cache')
              \/ \E c \in Connections :
                     /\ call[c].pc = "fetched"
                     /\ "callback_ok" \in Range(call[c].trace)
                     /\ ~InvalidByContract(call[c].callbackResult)
                     /\ cache'.tokenResult = call[c].callbackResult
                     /\ Count(call'[c].trace, "put") = 1]_vars

\* C22 witness: the cache holds the token that the first connection's call
\* fetched and stored, and the second connection's call has read it from the
\* cache.
C22_Witness ==
    /\ HoldsToken(cache)
    /\ "put" \in Range(call["c1"].trace)
    /\ cache.tokenResult = call["c1"].callbackResult
    /\ "cache_get" \in Range(call["c2"].trace)
    /\ call["c2"].tokenResult = cache.tokenResult

\* The workflow the contract assigns to an ENVIRONMENT value ("" when unset).
WorkflowOf(environment) ==
    CASE environment \in {"", "callback"} -> "CallbackWorkflow"
      [] environment = "aws" -> "AwsMachineWorkflow"
      [] environment = "azure" -> "AzureMachineWorkflow"
      [] environment = "gcp" -> "GCPMachineWorkflow"
      [] OTHER -> ""

\* C23: an auth call whose credentials resolve to a workflow runs one
\* operation of that workflow: reauthenticate, without the handshake response
\* and on the provider's cache (which it empties), when the context is
\* reauthenticating, otherwise execute with the context's response (which
\* removes nothing and reads the token the provider's cache held); when the
\* operation fails, auth has failed with the operation's error, and it has
\* returned only after the operation's finish reply.
C23_AuthDispatch ==
    (/\ F.op = "auth"
     /\ F.authContext.credentials # Undefined
     /\ F.workflow # "") =>
        LET ctx == F.authContext
        IN  /\ F.workflow = WorkflowOf(ctx.credentials.mechanismProperties.ENVIRONMENT)
            /\ F.method = IF ctx.reauthenticating THEN "reauthenticate" ELSE "execute"
            /\ F.workflow = "CallbackWorkflow" =>
                   /\ F.response = IF ctx.reauthenticating THEN Undefined ELSE ctx.response
                   /\ Count(F.trace, "remove") =
                          IF ctx.reauthenticating /\ F.entryCache # Undefined THEN 1 ELSE 0
                   /\ Count(F.trace, "start_cmd") + Count(F.trace, "start_reuse") <= 1
                   /\ "cache_get" \in Range(F.trace) =>
                          /\ HoldsToken(F.entryCache)
                          /\ F.tokenResult = F.entryCache.tokenResult
                   /\ "put" \in Range(F.trace) => cache.tokenResult = F.tokenResult
                   /\ F.thrown # Undefined => F.pc = "done" /\ F.result = Throw(F.thrown)
                   /\ (F.pc = "done" /\ ~F.result.threw) =>
                          /\ F.trace[Len(F.trace)] = "finish_ok"
                          /\ F.result.value = F.finishReply

\* C23 witness: a reauthenticating auth call that was given a speculative
\* reply has failed with the error of its finish command.
C23_Witness ==
    /\ F.op = "auth" /\ F.method = "reauthenticate"
    /\ F.authContext.response # Undefined
    /\ "speculativeAuthenticate" \in DOMAIN F.authContext.response
    /\ F.pc = "done"
    /\ F.thrown # Undefined
    /\ F.trace[Len(F.trace)] = "finish_err"
    /\ F.result = Throw(F.thrown)
====
